---------------------------- MODULE Spec2Model ----------------------------
(***************************************************************************)
(* Model of the stream_capture program: App::run (the orchestrator), the   *)
(* ConsumerThread workers it launches, the signal handler and the frame    *)
(* source each worker reads from.                                          *)
(***************************************************************************)
EXTENDS Integers, Sequences, FiniteSets, TLC

(***************************************************************************)
(* Bounds of the model.                                                    *)
(***************************************************************************)
MaxLoad == 3
MaxFrames == 4
MaxGap == 2
MaxStride == 2
MaxCaptureTime == 1
MaxSleep == 2
MaxModes == 2
MaxWorkers == 2

(***************************************************************************)
(* Program constants.                                                      *)
(***************************************************************************)
CAPTURE_MODE_0 == 0
DEFAULT_CAPTURE_TIME == 0
DEFAULT_SAVE_EVERY == 1
NumSignals == 4
NameWidth == 6
NoBuffer == -1

\* Indices of the per-camera arrays of App::run.
Cams == 0 .. (MaxLoad - 1)

VARIABLES
    env,                    \* the inputs of the run: argv, cameras, frames
    pc,                     \* position of the orchestrator thread in App::run
    i,                      \* index of the per-camera loop being executed
    errorOccurred,          \* App::run's local errorOccurred
    doRun,                  \* App::_doRun; the cancellation token is ~doRun
    handlers,               \* number of signal handlers installed
    logger,                 \* App::run's logger pointer is non-null
    options,                \* the Options object
    fs,                     \* output root and manifest on disk
    cameraProvider,         \* "none", "open" or "released"
    numCameras,             \* cameraDevices.size()
    iCaptureSessions,       \* per camera: "none", "open", "null" or "released"
    sensorMode,             \* sensorMode / iSensorMode are non-null
    captureStreams,         \* per camera: "null", "live" or "reset"
    consumers,              \* per camera: the ConsumerThread object and its thread
    numThreadsCreated,
    numThreadsInitialized,
    requests,               \* per camera: "none", "built", "repeating", "stopped" or "idle"
    numSuccessfulRequests,
    elapsed,                \* time(0) - start in the bounded wait loop
    result,                 \* "none" while running, then "true" or "false"
    frames,                 \* per camera: what the frame source delivered
    disk,                   \* per camera: the image files of cam<id>/
    hist                    \* observations of the run used to state properties

vars == << env, pc, i, errorOccurred, doRun, handlers, logger, options, fs,
           cameraProvider, numCameras, iCaptureSessions, sensorMode,
           captureStreams, consumers, numThreadsCreated, numThreadsInitialized,
           requests, numSuccessfulRequests, elapsed, result, frames, disk, hist >>

(***************************************************************************)
(* Pure helpers.                                                           *)
(***************************************************************************)

\* Decimal digits of n, most significant first (printf's %lu).
RECURSIVE Digits(_)
Digits(n) == IF n < 10 THEN << n >> ELSE Append(Digits(n \div 10), n % 10)

\* Left-pad a digit sequence with zeros to at least the given width (%06lu).
RECURSIVE ZeroPad(_, _)
ZeroPad(s, width) == IF Len(s) >= width THEN s ELSE ZeroPad(<< 0 >> \o s, width)

\* The number part of "image%06lu.jpg" (ConsumerThread::processV4L2Fd).
ImageName(index) == ZeroPad(Digits(index), NameWidth)

\* Strict lexicographic order on digit sequences of equal length.
RECURSIVE LexLess(_, _)
LexLess(a, b) ==
    IF a = << >> \/ b = << >> THEN FALSE
    ELSE IF Head(a) # Head(b) THEN Head(a) < Head(b)
    ELSE LexLess(Tail(a), Tail(b))

\* A ConsumerThread object as its constructor leaves it.
NewConsumer ==
    [ object        |-> "created",   \* "none", "created" or "deleted"
      thread        |-> "none",      \* "none","connect","check","acquire","done"
      doExecute     |-> TRUE,
      dmabuf        |-> NoBuffer,
      jpegEncoder   |-> FALSE,
      outputBuffer  |-> FALSE,
      consumer      |-> FALSE,
      index         |-> 1,
      wroteFirst    |-> FALSE,
      errorOccurred |-> FALSE,
      shutdownRequests |-> 0,        \* calls of requestShutdown
      joined        |-> FALSE ]

NoConsumer == [ NewConsumer EXCEPT !.object = "none" ]

\* The per-camera startup loops of App::run.
Loops == { "sessions", "streams", "launch", "waitRunning", "requests", "submit" }

\* Positions of App::run before the wait loop: the startup phases.
StartupPcs ==
    { "signals", "logger", "options", "volume", "setDirectory", "mkdir",
      "provider", "devices", "sessions", "sensor", "manifest", "streams",
      "launch", "waitRunning", "requests", "submit" }

NoFrames == [ delivered |-> 0, lastNumber |-> 0, multiples |-> 0 ]

NoHist ==
    [ waitRunningOk     |-> {},      \* workers whose waitRunning returned true
      waitRunningFailed |-> FALSE,
      submitted         |-> {},      \* sessions on which repeat was called
      pollSawDead       |-> FALSE,   \* a tick polled a worker with isExecuting false
      stopExecuteCalled |-> {},      \* workers on which stopExecute was called
      acquiredAfterStop |-> [ c \in Cams |-> 0 ],
      saved             |-> [ c \in Cams |-> 0 ],
      failure           |-> [ c \in Cams |-> FALSE ],
      rootFailed        |-> FALSE,   \* mkdir of the base directory failed
      nullLoggerUsed    |-> FALSE,   \* a method was called on the null logger
      shutdownCalled    |-> {},
      sentinel          |-> {},      \* workers whose acquireFrame returned no frame
      signal            |-> "none",  \* first signal: "none", "startup" or "later"
      sensorCheck       |-> [ relation |-> "unset",   \* index against mode count
                              empty    |-> FALSE,     \* the mode list was empty
                              branch   |-> "unset" ], \* branch App::run took
      allocations       |-> [ c \in Cams |-> 0 ],   \* createNvBuffer successes
      attempts          |-> [ l \in Loops |-> 0 ],  \* iterations started, per loop
      failedAt          |-> [ l \in Loops |-> -1 ], \* index that failed, per loop
      initFailedAt      |-> -1 ]

\* The observations after iteration idx of a startup loop with result ok.
Attempt(h, loop, idx, ok) ==
    [ h EXCEPT !.attempts[loop] = idx + 1,
               !.failedAt[loop] = IF ok THEN @ ELSE idx ]

\* The inputs of a run: the cameras attached, the most frames the cameras
\* deliver while it lasts, the most frame numbers one delivery advances by
\* (more than 1 when the stream's mailbox drops frames), and the values of
\* --save-every, --capture-time and --capture-mode.
Envs ==
    [ cameras     : 0 .. MaxLoad,
      frames      : 0 .. (IF MaxLoad > MaxFrames THEN MaxLoad ELSE MaxFrames),
      gap         : 1 .. MaxGap,
      saveEvery   : 1 .. MaxStride,
      captureTime : 0 .. MaxCaptureTime,
      captureMode : 0 .. (MaxModes + 1) ]

\* Sessions of any number of cameras, cameras and frames together bounded.
SessionEnvs ==
    { e \in Envs : /\ e.cameras + e.frames = MaxLoad
                   /\ e.gap = 1
                   /\ e.saveEvery = DEFAULT_SAVE_EVERY }

\* Single-camera sessions with a longer stream, dropped frames and every
\* stride.
WorkerEnvs ==
    { e \in Envs : /\ e.cameras = 1
                   /\ e.frames = MaxFrames
                   /\ e.gap = MaxGap
                   /\ e.captureMode = CAPTURE_MODE_0 }

\* Sessions of several cameras in which each camera can deliver a frame:
\* one worker can be processing a frame while another one fails or stops.
ScenarioEnvs ==
    { e \in Envs : /\ e.cameras = MaxWorkers
                   /\ e.frames = MaxWorkers
                   /\ e.gap = 1
                   /\ e.saveEvery = DEFAULT_SAVE_EVERY
                   /\ e.captureMode = CAPTURE_MODE_0 }

\* The Options object as Options::Options leaves it.
DefaultOptions ==
    [ captureTime       |-> DEFAULT_CAPTURE_TIME,
      saveEvery         |-> DEFAULT_SAVE_EVERY,
      captureMode       |-> CAPTURE_MODE_0,
      directory         |-> "name",    \* "name", then "path"
      captureResolution |-> "zero" ]   \* "zero", then "mode"

\* The state when App::run is entered (App::App and Options::Options ran).
Start ==
    /\ pc = "signals"
    /\ i = 0
    /\ errorOccurred = FALSE
    /\ doRun = TRUE
    /\ handlers = 0
    /\ logger = FALSE
    /\ options = DefaultOptions
    /\ fs = [ root |-> FALSE, manifest |-> FALSE ]
    /\ cameraProvider = "none"
    /\ numCameras = 0
    /\ iCaptureSessions = [ c \in Cams |-> "none" ]
    /\ sensorMode = FALSE
    /\ captureStreams = [ c \in Cams |-> "null" ]
    /\ consumers = [ c \in Cams |-> NoConsumer ]
    /\ numThreadsCreated = 0
    /\ numThreadsInitialized = 0
    /\ requests = [ c \in Cams |-> "none" ]
    /\ numSuccessfulRequests = 0
    /\ elapsed = 0
    /\ result = "none"
    /\ frames = [ c \in Cams |-> NoFrames ]
    /\ disk = [ c \in Cams |-> [ dir |-> FALSE, files |-> {} ] ]
    /\ hist = NoHist

\* A capture session with any number of cameras.
Init == env \in SessionEnvs /\ Start

\* A single-camera session with a longer stream and every stride.
WorkerInit == env \in WorkerEnvs /\ Start

\* A session of several cameras, each delivering frames.
ScenarioInit == env \in ScenarioEnvs /\ Start

\* Single-camera sessions with any sensor-mode index in the Options object.
ModeEnvs ==
    { e \in Envs : /\ e.cameras = 1
                   /\ e.frames = 1
                   /\ e.gap = 1
                   /\ e.saveEvery = DEFAULT_SAVE_EVERY }

\* The sensor-mode phase of App::run entered with every earlier phase
\* succeeded and any index in _options->captureMode: the inputs of the
\* sensor-mode decision are the index and the device's mode list.
ModeInit ==
    /\ env \in ModeEnvs
    /\ pc = "sensor"
    /\ i = 0
    /\ errorOccurred = FALSE
    /\ doRun = TRUE
    /\ handlers = NumSignals
    /\ logger = TRUE
    /\ options = [ captureTime       |-> env.captureTime,
                   saveEvery         |-> env.saveEvery,
                   captureMode       |-> env.captureMode,
                   directory         |-> "path",
                   captureResolution |-> "zero" ]
    /\ fs = [ root |-> TRUE, manifest |-> FALSE ]
    /\ cameraProvider = "open"
    /\ numCameras = env.cameras
    /\ iCaptureSessions = [ c \in Cams |-> IF c < env.cameras THEN "open" ELSE "none" ]
    /\ sensorMode = FALSE
    /\ captureStreams = [ c \in Cams |-> "null" ]
    /\ consumers = [ c \in Cams |-> NoConsumer ]
    /\ numThreadsCreated = 0
    /\ numThreadsInitialized = 0
    /\ requests = [ c \in Cams |-> "none" ]
    /\ numSuccessfulRequests = 0
    /\ elapsed = 0
    /\ result = "none"
    /\ frames = [ c \in Cams |-> NoFrames ]
    /\ disk = [ c \in Cams |-> [ dir |-> FALSE, files |-> {} ] ]
    /\ hist = [ NoHist EXCEPT !.attempts["sessions"] = env.cameras ]

(***************************************************************************)
(* App::run, startup phases.  Each action is one statement block of        *)
(* App::run; a per-camera loop is one action taken once per iteration and  *)
(* once more to leave the loop.                                            *)
(***************************************************************************)


MutLoopActive == i < numCameras

\* The condition of every per-camera startup loop:
\* for (i = 0; i < numCameras && !errorOccurred; i++), inside if (!errorOccurred).
LoopActive == ~errorOccurred /\ i < numCameras

\* After an iteration with result ok the loop goes on to index i + 1.
More(ok) == ok /\ i + 1 < numCameras

\* The same for a teardown loop for (i = 0; i < n; i++).
MoreUpTo(n) == i + 1 < n

\* signal(SIGHUP..SIGTERM, signalCallback): the lazy OR installs handlers in
\* order and stops at the first SIG_ERR.
InstallSignalHandlers ==
    /\ pc = "signals"
    /\ \E k \in 0 .. NumSignals :
          /\ handlers' = k
          /\ errorOccurred' = (k < NumSignals)
    /\ pc' = "logger"
    /\ UNCHANGED << env, i, doRun, logger, options, fs, cameraProvider,
                    numCameras, iCaptureSessions, sensorMode, captureStreams,
                    consumers, numThreadsCreated, numThreadsInitialized,
                    requests, numSuccessfulRequests, elapsed, result, frames,
                    disk, hist >>

\* The logger is created only when no error has occurred.
CreateLogger ==
    /\ pc = "logger"
    /\ logger' = ~errorOccurred
    /\ pc' = "options"
    /\ UNCHANGED << env, i, errorOccurred, doRun, handlers, options, fs,
                    cameraProvider, numCameras, iCaptureSessions, sensorMode,
                    captureStreams, consumers, numThreadsCreated,
                    numThreadsInitialized, requests, numSuccessfulRequests,
                    elapsed, result, frames, disk, hist >>

\* Options::parse, case 'm': a mode other than 0 and 1 is invalid and mode 1
\* is rejected as disabled, so only CAPTURE_MODE_0 is accepted.
ModeAccepted(mode) == mode = CAPTURE_MODE_0

\* The results Options::parse can return: false whenever an argument is
\* rejected; otherwise the value of the local `valid`, which is read without
\* having been initialized.
ParseResults == IF ModeAccepted(env.captureMode) THEN BOOLEAN ELSE { FALSE }

\* The Options object after a parse that returned false: each field was
\* assigned or not, depending on where parsing stopped.
PartlyParsed ==
    { [ options EXCEPT !.captureTime = t, !.saveEvery = s, !.captureMode = m ] :
         t \in { options.captureTime, env.captureTime },
         s \in { options.saveEvery, env.saveEvery },
         m \in { options.captureMode, env.captureMode } }

\* _options->parse(argc, argv): a successful parse leaves captureTime >= 0,
\* saveEvery >= 1 and captureMode = CAPTURE_MODE_0.
ParseOptions ==
    /\ pc = "options"
    /\ IF errorOccurred
          THEN UNCHANGED << errorOccurred, options >>
          ELSE \E ok \in ParseResults :
                  IF ok
                     THEN /\ options' = [ options EXCEPT
                                             !.captureTime = env.captureTime,
                                             !.saveEvery   = env.saveEvery,
                                             !.captureMode = env.captureMode ]
                          /\ UNCHANGED errorOccurred
                     ELSE /\ errorOccurred' = TRUE
                          /\ options' \in PartlyParsed
    /\ pc' = "volume"
    /\ UNCHANGED << env, i, doRun, handlers, logger, fs, cameraProvider,
                    numCameras, iCaptureSessions, sensorMode, captureStreams,
                    consumers, numThreadsCreated, numThreadsInitialized,
                    requests, numSuccessfulRequests, elapsed, result, frames,
                    disk, hist >>

\* getAvailableDevice, then strncat into the std::string's own buffer: the
\* append writes past the string's size, so the step either goes on or
\* corrupts memory and ends the process.
SelectVolume ==
    /\ pc = "volume"
    /\ IF errorOccurred
          THEN /\ pc' = "setDirectory"
               /\ UNCHANGED options
          ELSE /\ pc' \in { "setDirectory", "crashed" }
               /\ options' = [ options EXCEPT !.directory = "path" ]
    /\ UNCHANGED << env, i, errorOccurred, doRun, handlers, logger, fs,
                    cameraProvider, numCameras, iCaptureSessions, sensorMode,
                    captureStreams, consumers, numThreadsCreated,
                    numThreadsInitialized, requests, numSuccessfulRequests,
                    elapsed, result, frames, disk, hist >>

\* logger->setDirectory(...) is called unconditionally: with a null logger
\* the call dereferences null.
SetLoggerDirectory ==
    /\ pc = "setDirectory"
    /\ IF logger
          THEN pc' = "mkdir"
          ELSE pc' \in { "mkdir", "crashed" }
    /\ hist' = [ hist EXCEPT !.nullLoggerUsed = @ \/ ~logger ]
    /\ UNCHANGED << env, i, errorOccurred, doRun, handlers, logger, options,
                    fs, cameraProvider, numCameras, iCaptureSessions,
                    sensorMode, captureStreams, consumers, numThreadsCreated,
                    numThreadsInitialized, requests, numSuccessfulRequests,
                    elapsed, result, frames, disk >>

MutMkdirFailed(ok) == FALSE

\* if (mkdir(_options->directory, MKDIR_MODE) != 0) errorOccurred = true;
MkdirFailed(ok) == ~ok

\* mkdir(_options->directory)
CreateBaseDirectory ==
    /\ pc = "mkdir"
    /\ IF errorOccurred
          THEN UNCHANGED << errorOccurred, fs, hist >>
          ELSE \E ok \in BOOLEAN :
                  /\ fs' = [ fs EXCEPT !.root = ok ]
                  /\ errorOccurred' = MkdirFailed(ok)
                  /\ hist' = [ hist EXCEPT !.rootFailed = ~ok ]
    /\ pc' = "provider"
    /\ UNCHANGED << env, i, doRun, handlers, logger, options, cameraProvider,
                    numCameras, iCaptureSessions, sensorMode, captureStreams,
                    consumers, numThreadsCreated, numThreadsInitialized,
                    requests, numSuccessfulRequests, elapsed, result, frames,
                    disk >>

\* CameraProvider::create and its interface.
CreateCameraProvider ==
    /\ pc = "provider"
    /\ IF errorOccurred
          THEN UNCHANGED << errorOccurred, cameraProvider >>
          ELSE \E ok \in BOOLEAN :
                  /\ cameraProvider' = IF ok THEN "open" ELSE "none"
                  /\ errorOccurred' = ~ok
    /\ pc' = "devices"
    /\ UNCHANGED << env, i, doRun, handlers, logger, options, fs, numCameras,
                    iCaptureSessions, sensorMode, captureStreams, consumers,
                    numThreadsCreated, numThreadsInitialized, requests,
                    numSuccessfulRequests, elapsed, result, frames, disk, hist >>

MutNoCameras(n) == FALSE

\* if (cameraDevices.size() == 0) errorOccurred = true;
NoCameras(n) == n = 0

\* getCameraDevices; numCameras = cameraDevices.size().
GetCameraDevices ==
    /\ pc = "devices"
    /\ IF errorOccurred
          THEN UNCHANGED << errorOccurred, numCameras >>
          ELSE /\ numCameras' = env.cameras
               /\ errorOccurred' = NoCameras(env.cameras)
    /\ pc' = "sessions"
    /\ i' = 0
    /\ UNCHANGED << env, doRun, handlers, logger, options, fs, cameraProvider,
                    iCaptureSessions, sensorMode, captureStreams, consumers,
                    numThreadsCreated, numThreadsInitialized, requests,
                    numSuccessfulRequests, elapsed, result, frames, disk, hist >>

\* createCaptureSession for each device; STATUS_UNAVAILABLE and a null
\* interface both set errorOccurred.
CreateCaptureSessions ==
    /\ pc = "sessions"
    /\ IF LoopActive
          THEN /\ \E ok \in BOOLEAN :
                     /\ iCaptureSessions' =
                           [ iCaptureSessions EXCEPT ![i] = IF ok THEN "open" ELSE "null" ]
                     /\ errorOccurred' = ~ok
                     /\ hist' = Attempt(hist, "sessions", i, ok)
                     /\ i' = IF More(ok) THEN i + 1 ELSE 0
                     /\ pc' = IF More(ok) THEN pc ELSE "sensor"
          ELSE /\ pc' = "sensor"
               /\ i' = 0
               /\ UNCHANGED << iCaptureSessions, errorOccurred, hist >>
    /\ UNCHANGED << env, doRun, handlers, logger, options, fs, cameraProvider,
                    numCameras, sensorMode, captureStreams, consumers,
                    numThreadsCreated, numThreadsInitialized, requests,
                    numSuccessfulRequests, elapsed, result, frames, disk >>

MutSensorModeBranch(captureMode, nModes) ==
    IF nModes = 0 THEN "none"
    ELSE IF captureMode >= nModes THEN "default"
    ELSE "select"

\* The sensor-mode decision of App::run for a requested zero-based index
\* and the number of modes the device lists: "none" (no modes), "default"
\* (fall back to CAPTURE_MODE_0), "outOfBounds" (index == count passes the
\* strict > test and indexes one past the vector), "select" a listed mode.
SensorModeBranch(captureMode, nModes) ==
    IF nModes = 0 THEN "none"
    ELSE IF captureMode > nModes THEN "default"
    ELSE IF captureMode = nModes THEN "outOfBounds"
    ELSE "select"

\* How a requested index compares with the number of modes listed.
Relation(captureMode, nModes) ==
    IF captureMode < nModes THEN "below"
    ELSE IF captureMode = nModes THEN "equal"
    ELSE "above"

\* Verify the selected sensor mode.
VerifySensorMode ==
    /\ pc = "sensor"
    /\ IF errorOccurred
          THEN /\ pc' = "manifest"
               /\ UNCHANGED << errorOccurred, options, sensorMode, hist >>
          ELSE \E props \in BOOLEAN, nModes \in 0 .. MaxModes, iface \in BOOLEAN :
                  LET branch == SensorModeBranch(options.captureMode, nModes) IN
                  /\ hist' = IF props
                      THEN [ hist EXCEPT !.sensorCheck =
                               [ relation |-> Relation(options.captureMode, nModes),
                                 empty    |-> nModes = 0,
                                 branch   |-> branch ] ]
                      ELSE hist
                  /\ IF ~props \/ branch = "none"
                     THEN /\ errorOccurred' = TRUE
                          /\ pc' = "manifest"
                          /\ UNCHANGED << options, sensorMode >>
                     ELSE IF branch = "default"
                     THEN /\ options' = [ options EXCEPT !.captureMode = CAPTURE_MODE_0 ]
                          /\ pc' = "manifest"
                          /\ UNCHANGED << errorOccurred, sensorMode >>
                     ELSE /\ sensorMode' = iface
                          /\ errorOccurred' = ~iface
                          /\ pc' \in IF branch = "outOfBounds"
                                        THEN { "manifest", "crashed" }
                                        ELSE { "manifest" }
                          /\ options' = [ options EXCEPT !.captureResolution =
                                             IF iface THEN "mode" ELSE @ ]
    /\ UNCHANGED << env, i, doRun, handlers, logger, fs, cameraProvider,
                    numCameras, iCaptureSessions, captureStreams, consumers,
                    numThreadsCreated, numThreadsInitialized, requests,
                    numSuccessfulRequests, elapsed, result, frames, disk >>

MutManifestWritten(err) == TRUE

\* if (!errorOccurred) _options->write();
ManifestWritten(err) == ~err

\* _options->write()
WriteOptions ==
    /\ pc = "manifest"
    /\ fs' = [ fs EXCEPT !.manifest = @ \/ ManifestWritten(errorOccurred) ]
    /\ pc' = "streams"
    /\ i' = 0
    /\ UNCHANGED << env, errorOccurred, doRun, handlers, logger, options,
                    cameraProvider, numCameras, iCaptureSessions, sensorMode,
                    captureStreams, consumers, numThreadsCreated,
                    numThreadsInitialized, requests, numSuccessfulRequests,
                    elapsed, result, frames, disk, hist >>

\* createOutputStreamSettings / createOutputStream for each session.
CreateOutputStreams ==
    /\ pc = "streams"
    /\ IF LoopActive
          THEN /\ \E ok \in BOOLEAN :
                     /\ captureStreams' =
                           [ captureStreams EXCEPT ![i] = IF ok THEN "live" ELSE "null" ]
                     /\ errorOccurred' = ~ok
                     /\ hist' = Attempt(hist, "streams", i, ok)
                     /\ i' = IF More(ok) THEN i + 1 ELSE 0
                     /\ pc' = IF More(ok) THEN pc ELSE "launch"
          ELSE /\ pc' = "launch"
               /\ i' = 0
               /\ UNCHANGED << captureStreams, errorOccurred, hist >>
    /\ UNCHANGED << env, doRun, handlers, logger, options, fs, cameraProvider,
                    numCameras, iCaptureSessions, sensorMode, consumers,
                    numThreadsCreated, numThreadsInitialized, requests,
                    numSuccessfulRequests, elapsed, result, frames, disk >>

\* ConsumerThread::threadInitialize on a fresh object; failAt names the first
\* step that fails ("none" when all succeed).  The logger and the new[] of
\* the output buffer cannot return null.
ThreadInitialize(c, failAt) ==
    [ c EXCEPT !.consumer     = failAt \notin { "mkdir", "consumer" },
               !.outputBuffer = failAt \notin { "mkdir", "consumer" },
               !.jpegEncoder  = failAt = "none" ]

InitFailures == { "none", "mkdir", "consumer", "encoder" }

\* Thread::initialize: starts the worker thread, which runs threadInitialize
\* and then Execute; returns whether threadInitialize succeeded.
ThreadStart(c, ok) == IF ok THEN [ c EXCEPT !.thread = "connect" ] ELSE c

MutConstOptions(o) ==
    [ o EXCEPT !.captureResolution = IF @ = "mode" THEN "zero" ELSE "mode" ]

\* const Options& _options: the worker's constructor and threadInitialize
\* read the object App::run passes by reference and leave it as it is.
ConstOptions(o) == o

\* new ConsumerThread(...) and initialize() for each stream.
LaunchConsumers ==
    /\ pc = "launch"
    /\ IF LoopActive
          THEN /\ \E failAt \in InitFailures :
                     LET ok == failAt = "none" IN
                     /\ consumers' = [ consumers EXCEPT ![i] =
                            ThreadStart(ThreadInitialize(NewConsumer, failAt), ok) ]
                     /\ disk' = [ disk EXCEPT ![i].dir = failAt # "mkdir" ]
                     /\ options' = ConstOptions(options)
                     /\ numThreadsCreated' = i + 1
                     /\ numThreadsInitialized' = IF ok THEN i + 1 ELSE numThreadsInitialized
                     /\ errorOccurred' = ~ok
                     /\ hist' = [ Attempt(hist, "launch", i, ok) EXCEPT
                                     !.initFailedAt = IF ok THEN @ ELSE i ]
                     /\ i' = IF More(ok) THEN i + 1 ELSE 0
                     /\ pc' = IF More(ok) THEN pc ELSE "waitRunning"
          ELSE /\ pc' = "waitRunning"
               /\ i' = 0
               /\ UNCHANGED << consumers, disk, options, numThreadsCreated,
                               numThreadsInitialized, errorOccurred, hist >>
    /\ UNCHANGED << env, doRun, handlers, logger, fs, cameraProvider,
                    numCameras, iCaptureSessions, sensorMode, captureStreams,
                    requests, numSuccessfulRequests, elapsed, result, frames >>

\* Thread::waitRunning: true once the worker has attached to its stream,
\* false when the timeout expires first.
WaitRunningResults(c) ==
    IF c.thread \in { "check", "acquire", "process", "done" }
       THEN { TRUE, FALSE } ELSE { FALSE }

\* consumers[i]->waitRunning() for each worker.  Blocks while the worker is
\* still connecting unless the timeout expires.
WaitRunning ==
    /\ pc = "waitRunning"
    /\ IF LoopActive
          THEN /\ \E ok \in WaitRunningResults(consumers[i]) :
                     /\ errorOccurred' = ~ok
                     /\ hist' = [ Attempt(hist, "waitRunning", i, ok) EXCEPT
                            !.waitRunningOk = IF ok THEN @ \cup { i } ELSE @,
                            !.waitRunningFailed = @ \/ ~ok ]
                     /\ i' = IF More(ok) THEN i + 1 ELSE 0
                     /\ pc' = IF More(ok) THEN pc ELSE "requests"
          ELSE /\ pc' = "requests"
               /\ i' = 0
               /\ UNCHANGED << errorOccurred, hist >>
    /\ UNCHANGED << env, doRun, handlers, logger, options, fs, cameraProvider,
                    numCameras, iCaptureSessions, sensorMode, captureStreams,
                    consumers, numThreadsCreated, numThreadsInitialized,
                    requests, numSuccessfulRequests, elapsed, result, frames,
                    disk >>

\* createRequest, source settings and enableOutputStream for each session.
\* setFrameDurationRange(iSensorMode->...) dereferences iSensorMode, which is
\* null when no sensor mode was resolved.
CreateRequests ==
    /\ pc = "requests"
    /\ IF LoopActive
          THEN /\ \E ok \in BOOLEAN :
                     /\ requests' = [ requests EXCEPT ![i] = IF ok THEN "built" ELSE "none" ]
                     /\ errorOccurred' = ~ok
                     /\ hist' = Attempt(hist, "requests", i, ok)
                     /\ pc' \in { IF More(ok) THEN pc ELSE "submit" } \cup
                                 IF ok /\ ~sensorMode THEN { "crashed" } ELSE { }
                     /\ i' = IF More(ok) THEN i + 1 ELSE 0
          ELSE /\ pc' = "submit"
               /\ i' = 0
               /\ UNCHANGED << requests, errorOccurred, hist >>
    /\ UNCHANGED << env, doRun, handlers, logger, options, fs, cameraProvider,
                    numCameras, iCaptureSessions, sensorMode, captureStreams,
                    consumers, numThreadsCreated, numThreadsInitialized,
                    numSuccessfulRequests, elapsed, result, frames, disk >>

MutSubmitPhaseOpen == i < numCameras

\* if (!errorOccurred) and the condition of the submission loop.
SubmitPhaseOpen == LoopActive

\* The wait loop is entered only if (!errorOccurred); otherwise teardown
\* starts at the stopRepeat loop.
AfterSubmit(err) == IF err THEN "stopRepeat" ELSE "waitLoop"

\* iCaptureSessions[i]->repeat(requests[i]) for each session.
SubmitRequests ==
    /\ pc = "submit"
    /\ IF SubmitPhaseOpen
          THEN /\ \E ok \in BOOLEAN :
                     /\ requests' = [ requests EXCEPT ![i] = IF ok THEN "repeating" ELSE @ ]
                     /\ numSuccessfulRequests' = IF ok THEN i + 1 ELSE numSuccessfulRequests
                     /\ errorOccurred' = (errorOccurred \/ ~ok)
                     /\ i' = IF More(ok) THEN i + 1 ELSE 0
                     /\ pc' = IF More(ok) THEN pc ELSE AfterSubmit(errorOccurred \/ ~ok)
                     /\ hist' = [ Attempt(hist, "submit", i, ok) EXCEPT
                                     !.submitted = @ \cup { i } ]
          ELSE /\ pc' = AfterSubmit(errorOccurred)
               /\ i' = 0
               /\ UNCHANGED << requests, numSuccessfulRequests, errorOccurred, hist >>
    /\ UNCHANGED << env, doRun, handlers, logger, options, fs, cameraProvider,
                    numCameras, iCaptureSessions, sensorMode, captureStreams,
                    consumers, numThreadsCreated, numThreadsInitialized,
                    elapsed, result, frames, disk >>

(***************************************************************************)
(* App::run, the wait loop.                                                *)
(***************************************************************************)

MutWaitLoopCond(run, el, captureTime) ==
    IF captureTime > 0 THEN run /\ el <= captureTime ELSE run

\* while (_doRun && time(0) - start < captureTime) for a bounded run,
\* while (_doRun) for an unbounded one.
WaitLoopCond(run, el, captureTime) ==
    IF captureTime > 0 THEN run /\ el < captureTime ELSE run

WaitLoopCheck ==
    /\ pc = "waitLoop"
    /\ IF WaitLoopCond(doRun, elapsed, options.captureTime)
          THEN pc' = "tick"
          ELSE pc' = "stopExecute"
    /\ UNCHANGED << env, i, errorOccurred, doRun, handlers, logger, options,
                    fs, cameraProvider, numCameras, iCaptureSessions,
                    sensorMode, captureStreams, consumers, numThreadsCreated,
                    numThreadsInitialized, requests, numSuccessfulRequests,
                    elapsed, result, frames, disk, hist >>

\* sleep(1): at least one second passes, unless a signal cut the sleep short.
SleepTimes == IF doRun THEN 1 .. MaxSleep ELSE 0 .. MaxSleep

\* time(0) - start after a sleep.  Only whether it has reached captureTime
\* is ever read, so the model stops counting there.
Later(el, d, captureTime) ==
    IF captureTime > 0
       THEN IF el + d < captureTime THEN el + d ELSE captureTime
       ELSE el

MutPollResultIgnore(run, executing) == run

MutPollResultAssign(run, executing) == executing

\* if (!consumers[i]->isExecuting()) _doRun = false;
PollResult(run, executing) == IF ~executing THEN FALSE ELSE run

MutIsExecuting(c) == c.doExecute /\ c.thread # "acquire"

\* ConsumerThread::isExecuting
IsExecuting(c) == c.doExecute

\* for (i = 0; i < numCameras; i++) of the poll, over workers 0 .. n-1.
RECURSIVE PollAll(_, _)
PollAll(run, n) ==
    IF n = 0 THEN run
    ELSE PollResult(PollAll(run, n - 1), IsExecuting(consumers[n - 1]))

\* One pass of the wait loop's body: sleep(1), then poll every worker.  The
\* workers' flags only ever go from true to false, so polling them one after
\* the other sees what one look at all of them sees.
Tick ==
    /\ pc = "tick"
    /\ \E d \in SleepTimes : elapsed' = Later(elapsed, d, options.captureTime)
    /\ doRun' = PollAll(doRun, numCameras)
    /\ hist' = [ hist EXCEPT !.pollSawDead =
          @ \/ \E c \in 0 .. (numCameras - 1) : ~IsExecuting(consumers[c]) ]
    /\ pc' = "waitLoop"
    /\ UNCHANGED << env, i, errorOccurred, handlers, logger, options, fs,
                    cameraProvider, numCameras, iCaptureSessions, sensorMode,
                    captureStreams, consumers, numThreadsCreated,
                    numThreadsInitialized, requests, numSuccessfulRequests,
                    result, frames, disk >>

MutStopExecute(c) == [ c EXCEPT !.doExecute = ~@ ]

\* ConsumerThread::stopExecute
StopExecute(c) == [ c EXCEPT !.doExecute = FALSE ]

\* for each worker: consumers[i]->stopExecute(); then sleep(1).
StopExecuteAll ==
    /\ pc = "stopExecute"
    /\ IF i < numCameras
          THEN /\ consumers' = [ consumers EXCEPT ![i] = StopExecute(@) ]
               /\ hist' = [ hist EXCEPT !.stopExecuteCalled = @ \cup { i } ]
               /\ i' = IF MoreUpTo(numCameras) THEN i + 1 ELSE 0
               /\ pc' = IF MoreUpTo(numCameras) THEN pc ELSE "stopRepeat"
          ELSE /\ pc' = "stopRepeat"
               /\ i' = 0
               /\ UNCHANGED << consumers, hist >>
    /\ UNCHANGED << env, errorOccurred, doRun, handlers, logger, options, fs,
                    cameraProvider, numCameras, iCaptureSessions, sensorMode,
                    captureStreams, numThreadsCreated, numThreadsInitialized,
                    requests, numSuccessfulRequests, elapsed, result, frames,
                    disk >>

\* App::signalCallback: a termination signal whose handler is installed.
SignalCallback ==
    /\ handlers > 0
    /\ pc \notin { "signals", "done", "crashed" }
    /\ doRun' = FALSE
    /\ hist' = [ hist EXCEPT !.signal =
          IF @ # "none" THEN @ ELSE IF pc \in StartupPcs THEN "startup" ELSE "later" ]
    /\ UNCHANGED << env, pc, i, errorOccurred, handlers, logger, options, fs,
                    cameraProvider, numCameras, iCaptureSessions, sensorMode,
                    captureStreams, consumers, numThreadsCreated,
                    numThreadsInitialized, requests, numSuccessfulRequests,
                    elapsed, result, frames, disk >>

(***************************************************************************)
(* App::run, teardown.                                                     *)
(***************************************************************************)

MutStopBound == numCameras

\* The bound of the stopRepeat and waitForIdle loops.
StopBound == numSuccessfulRequests

\* for (i = 0; i < numSuccessfulRequests; i++) iCaptureSessions[i]->stopRepeat();
\* No other thread reads what the loop changes, so it is one step.
StopRepeat ==
    /\ pc = "stopRepeat"
    /\ requests' = [ c \in Cams |->
          IF c < StopBound /\ iCaptureSessions[c] = "open"
             THEN "stopped" ELSE requests[c] ]
    /\ pc' = "waitIdle"
    /\ UNCHANGED << env, i, errorOccurred, doRun, handlers, logger, options,
                    fs, cameraProvider, numCameras, iCaptureSessions,
                    sensorMode, captureStreams, consumers, numThreadsCreated,
                    numThreadsInitialized, numSuccessfulRequests, elapsed,
                    result, frames, disk, hist >>

\* for (i = 0; i < numSuccessfulRequests; i++) iCaptureSessions[i]->waitForIdle(timeout);
WaitForIdle ==
    /\ pc = "waitIdle"
    /\ requests' = [ c \in Cams |->
          IF c < StopBound /\ iCaptureSessions[c] = "open"
             THEN "idle" ELSE requests[c] ]
    /\ pc' = "destroyStreams"
    /\ i' = 0
    /\ UNCHANGED << env, errorOccurred, doRun, handlers, logger, options, fs,
                    cameraProvider, numCameras, iCaptureSessions, sensorMode,
                    captureStreams, consumers, numThreadsCreated,
                    numThreadsInitialized, numSuccessfulRequests, elapsed,
                    result, frames, disk, hist >>

MutResetStream(s) == s

\* captureStreams[i].reset()
ResetStream(s) == IF s = "live" THEN "reset" ELSE s

DestroyStreams ==
    /\ pc = "destroyStreams"
    /\ IF i < numCameras
          THEN /\ captureStreams' = [ captureStreams EXCEPT ![i] = ResetStream(@) ]
               /\ i' = IF MoreUpTo(numCameras) THEN i + 1 ELSE 0
               /\ pc' = IF MoreUpTo(numCameras) THEN pc ELSE "shutdown"
          ELSE /\ pc' = "shutdown"
               /\ i' = 0
               /\ UNCHANGED captureStreams
    /\ UNCHANGED << env, errorOccurred, doRun, handlers, logger, options, fs,
                    cameraProvider, numCameras, iCaptureSessions, sensorMode,
                    consumers, numThreadsCreated, numThreadsInitialized,
                    requests, numSuccessfulRequests, elapsed, result, frames,
                    disk, hist >>

\* Thread::shutdown: requests shutdown and joins the thread; it returns once
\* the worker thread has ended.
Joinable(c) == c.thread = "done"

MutJoinThread(c) == c

\* consumers[i]->shutdown() has returned: the worker's thread is joined.
JoinThread(c) == [ c EXCEPT !.joined = TRUE ]

\* consumers[i]->shutdown() for i < numThreadsInitialized.
ShutdownConsumers ==
    /\ pc = "shutdown"
    /\ IF i < numThreadsInitialized
          THEN /\ Joinable(consumers[i])
               /\ consumers' = [ consumers EXCEPT ![i] = JoinThread(@) ]
               /\ hist' = [ hist EXCEPT !.shutdownCalled = @ \cup { i } ]
               /\ i' = IF MoreUpTo(numThreadsInitialized) THEN i + 1 ELSE 0
               /\ pc' = IF MoreUpTo(numThreadsInitialized) THEN pc ELSE "delete"
          ELSE /\ pc' = "delete"
               /\ i' = 0
               /\ UNCHANGED << consumers, hist >>
    /\ UNCHANGED << env, errorOccurred, doRun, handlers, logger, options, fs,
                    cameraProvider, numCameras, iCaptureSessions, sensorMode,
                    captureStreams, numThreadsCreated, numThreadsInitialized,
                    requests, numSuccessfulRequests, elapsed, result, frames,
                    disk >>

MutDestroy(c) == [ c EXCEPT !.object = "deleted", !.jpegEncoder = FALSE,
                              !.outputBuffer = FALSE, !.consumer = FALSE ]

\* ConsumerThread::~ConsumerThread
Destroy(c) ==
    [ c EXCEPT !.object = "deleted", !.jpegEncoder = FALSE,
               !.outputBuffer = FALSE, !.dmabuf = NoBuffer, !.consumer = FALSE ]

MutDeleteBound == numThreadsInitialized

\* for (i = 0; i < numThreadsCreated; i++) delete consumers[i];
DeleteBound == numThreadsCreated

DeleteConsumers ==
    /\ pc = "delete"
    /\ consumers' = [ c \in Cams |->
          IF c < DeleteBound THEN Destroy(consumers[c]) ELSE consumers[c] ]
    /\ pc' = "return"
    /\ UNCHANGED << env, i, errorOccurred, doRun, handlers, logger, options,
                    fs, cameraProvider, numCameras, iCaptureSessions,
                    sensorMode, captureStreams, numThreadsCreated,
                    numThreadsInitialized, requests, numSuccessfulRequests,
                    elapsed, result, frames, disk, hist >>

MutRunResult(err, run) == ~err /\ run

\* return !errorOccurred: the value App::run returns, whatever _doRun is.
RunResult(err, run) == ~err

\* return !errorOccurred; the UniqueObj members then release what they
\* still hold: the capture sessions, then the camera provider.
Return ==
    /\ pc = "return"
    /\ result' = IF RunResult(errorOccurred, doRun) THEN "true" ELSE "false"
    /\ iCaptureSessions' =
          [ c \in Cams |-> IF iCaptureSessions[c] = "open" THEN "released"
                                                          ELSE iCaptureSessions[c] ]
    /\ cameraProvider' = IF cameraProvider = "open" THEN "released" ELSE cameraProvider
    /\ pc' = "done"
    /\ UNCHANGED << env, i, errorOccurred, doRun, handlers, logger, options,
                    fs, numCameras, sensorMode, captureStreams, consumers,
                    numThreadsCreated, numThreadsInitialized, requests,
                    numSuccessfulRequests, elapsed, frames, disk, hist >>

(***************************************************************************)
(* ConsumerThread::threadExecute, one worker thread per camera.            *)
(***************************************************************************)

Allocated == 1

MutFinish(c, err) ==
    [ c EXCEPT !.thread = "done", !.errorOccurred = err, !.shutdownRequests = @ + 1 ]

\* The end of threadExecute: _doExecute = false; requestShutdown(); return.
Finish(c, err) ==
    [ c EXCEPT !.doExecute = FALSE, !.thread = "done", !.errorOccurred = err,
               !.shutdownRequests = @ + 1 ]

\* iEglOutputStream->waitUntilConnected() returns STATUS_OK or fails.  The
\* worker holds a raw pointer to the stream: once App::run has reset the
\* stream the call uses a destroyed object and may fail, appear to succeed,
\* or end the process.
Connect(w) ==
    /\ pc # "crashed"
    /\ consumers[w].thread = "connect"
    /\ IF captureStreams[w] = "live"
          THEN \/ /\ consumers' = [ consumers EXCEPT ![w].thread = "check" ]
                  /\ pc' = pc
               \/ /\ consumers' = [ consumers EXCEPT ![w] = Finish(@, TRUE) ]
                  /\ pc' = pc
          ELSE \/ /\ consumers' = [ consumers EXCEPT ![w] = Finish(@, TRUE) ]
                  /\ pc' = pc
               \/ /\ consumers' = [ consumers EXCEPT ![w].thread = "check" ]
                  /\ pc' = pc
               \/ /\ pc' = "crashed"
                  /\ UNCHANGED consumers
    /\ UNCHANGED << env, i, errorOccurred, doRun, handlers, logger, options,
                    fs, cameraProvider, numCameras, iCaptureSessions,
                    sensorMode, captureStreams, numThreadsCreated,
                    numThreadsInitialized, requests, numSuccessfulRequests,
                    elapsed, result, frames, disk, hist >>

MutExecuteLoopCond(err, doExecute) == ~err

\* while (!errorOccurred && _doExecute)
ExecuteLoopCond(err, doExecute) == ~err /\ doExecute

LoopCheck(w) ==
    /\ pc # "crashed"
    /\ consumers[w].thread = "check"
    /\ consumers' = [ consumers EXCEPT ![w] =
          IF ExecuteLoopCond(@.errorOccurred, @.doExecute)
             THEN [ @ EXCEPT !.thread = "acquire" ]
             ELSE Finish(@, @.errorOccurred) ]
    /\ UNCHANGED << env, pc, i, errorOccurred, doRun, handlers, logger,
                    options, fs, cameraProvider, numCameras, iCaptureSessions,
                    sensorMode, captureStreams, numThreadsCreated,
                    numThreadsInitialized, requests, numSuccessfulRequests,
                    elapsed, result, frames, disk, hist >>

\* Frames delivered so far over all cameras.
RECURSIVE DeliveredUpTo(_)
DeliveredUpTo(n) == IF n = 0 THEN 0 ELSE frames[n - 1].delivered + DeliveredUpTo(n - 1)

\* The frame source has a frame for camera w: its capture request was
\* submitted, its stream exists and the run's frame budget is not used up.
FrameAvailable(w) ==
    /\ captureStreams[w] = "live"
    /\ requests[w] \in { "repeating", "stopped", "idle" }
    /\ DeliveredUpTo(MaxLoad) < env.frames

MutShouldProcess(number, saveEvery) == number % saveEvery = saveEvery - 1

\* iFrame->getNumber() % _options.saveEvery == 0
ShouldProcess(number, saveEvery) == number % saveEvery = 0

MutFileIndex(index, number) == number

\* The index passed to processV4L2Fd(_dmabuf, index++).
FileIndex(index, number) == index

MutNeedsBuffer(dmabuf) == TRUE

\* if (_dmabuf == -1) createNvBuffer(...) else copyToNvBuffer(_dmabuf)
NeedsBuffer(dmabuf) == dmabuf = NoBuffer

\* What can happen to a frame that is processed.
ProcessOutcomes ==
    { "ok", "noNativeBuffer", "bufferError", "openFail", "encodeFail", "writeFail" }

\* ConsumerThread::processV4L2Fd creates the file when the ofstream opens,
\* then encodes and writes; it returns true only when all three succeed.
FileCreated(outcome) == outcome \in { "ok", "encodeFail", "writeFail" }

MutDiscard(c) == [ c EXCEPT !.thread = "check", !.index = @ + 1 ]

\* A frame that fails the stride test: the if at line 140 is skipped and the
\* loop goes back to its condition.
Discard(c) == [ c EXCEPT !.thread = "check" ]

\* The body of the Execute loop for an acquired frame, up to the end of the
\* iteration: the worker object afterwards.
ProcessBody(c, number, saveEvery, outcome) ==
    IF ~ShouldProcess(number, saveEvery)
       THEN Discard(c)
    ELSE IF outcome \in { "noNativeBuffer", "bufferError" }
       THEN Finish(c, TRUE)
    ELSE [ c EXCEPT !.dmabuf = IF NeedsBuffer(@) THEN Allocated ELSE @,
                    !.index = @ + 1,
                    !.wroteFirst = @ \/ outcome = "ok",
                    !.doExecute = IF outcome = "ok" THEN @ ELSE FALSE,
                    !.thread = "check" ]

\* The image files of the worker's directory after the same iteration.
FilesAfter(files, c, number, saveEvery, outcome) ==
    IF ShouldProcess(number, saveEvery) /\ FileCreated(outcome)
       THEN files \cup { ImageName(FileIndex(c.index, number)) }
       ELSE files

\* The observations after the same iteration.
HistAfter(h, w, number, saveEvery, outcome) ==
    IF ~ShouldProcess(number, saveEvery) THEN h
    ELSE [ h EXCEPT !.saved[w] = IF outcome = "ok" THEN @ + 1 ELSE @,
                    !.failure[w] = @ \/ outcome # "ok",
                    !.allocations[w] =
                        IF /\ outcome \notin { "noNativeBuffer", "bufferError" }
                           /\ NeedsBuffer(consumers[w].dmabuf)
                           THEN @ + 1 ELSE @ ]

\* The first processed frame creates the buffer from the stream's
\* resolution, read through the worker's raw stream pointer.
ReadsStream(c, number, saveEvery) ==
    ShouldProcess(number, saveEvery) /\ NeedsBuffer(c.dmabuf)

MutOnSentinel(c) == Finish(c, TRUE)

\* if (!iFrame) break;  The loop ends with errorOccurred as it was.
OnSentinel(c) == Finish(c, c.errorOccurred)

\* return !errorOccurred; of threadExecute.
ThreadExecuteResult(c) == ~c.errorOccurred

\* iFrameConsumer->acquireFrame() and, for a frame, the loop iteration it
\* starts.  The call blocks until a frame arrives or the stream has ended.
\* Frame numbers increase; the stream's mailbox may drop frames, so
\* consecutive deliveries may skip numbers.  An iteration that reads the
\* stream is finished by ProcessFrame, any other one here.
AcquireFrame(w) ==
    /\ pc # "crashed"
    /\ consumers[w].thread = "acquire"
    /\ \/ /\ FrameAvailable(w)
          /\ \E gap \in 1 .. env.gap, outcome \in ProcessOutcomes :
                LET number == frames[w].lastNumber + gap
                    c == consumers[w]
                    h == [ hist EXCEPT !.acquiredAfterStop[w] =
                              IF w \in hist.stopExecuteCalled THEN @ + 1 ELSE @ ]
                IN
                /\ frames' = [ frames EXCEPT ![w] =
                      [ delivered  |-> @.delivered + 1,
                        lastNumber |-> number,
                        multiples  |-> @.multiples +
                           IF number % options.saveEvery = 0 THEN 1 ELSE 0 ] ]
                /\ IF ReadsStream(c, number, options.saveEvery)
                      THEN /\ consumers' = [ consumers EXCEPT ![w].thread = "process" ]
                           /\ hist' = h
                           /\ UNCHANGED disk
                      ELSE /\ consumers' = [ consumers EXCEPT ![w] =
                                 ProcessBody(c, number, options.saveEvery, outcome) ]
                           /\ disk' = [ disk EXCEPT ![w].files =
                                 FilesAfter(@, c, number, options.saveEvery, outcome) ]
                           /\ hist' = HistAfter(h, w, number, options.saveEvery, outcome)
       \/ /\ captureStreams[w] # "live"
          /\ consumers' = [ consumers EXCEPT ![w] = OnSentinel(@) ]
          /\ hist' = [ hist EXCEPT !.sentinel = @ \cup { w } ]
          /\ UNCHANGED << frames, disk >>
    /\ UNCHANGED << env, pc, i, errorOccurred, doRun, handlers, logger,
                    options, fs, cameraProvider, numCameras, iCaptureSessions,
                    sensorMode, captureStreams, numThreadsCreated,
                    numThreadsInitialized, requests, numSuccessfulRequests,
                    elapsed, result >>

\* The rest of the iteration for the first processed frame.  If App::run has
\* reset the stream by then, reading its resolution uses a destroyed object
\* and may end the process.
ProcessFrame(w) ==
    /\ pc # "crashed"
    /\ consumers[w].thread = "process"
    /\ \E outcome \in ProcessOutcomes :
          LET c == consumers[w]
              number == frames[w].lastNumber
          IN
          \/ /\ consumers' = [ consumers EXCEPT ![w] =
                   ProcessBody(c, number, options.saveEvery, outcome) ]
             /\ disk' = [ disk EXCEPT ![w].files =
                   FilesAfter(@, c, number, options.saveEvery, outcome) ]
             /\ hist' = HistAfter(hist, w, number, options.saveEvery, outcome)
             /\ pc' = pc
          \/ /\ outcome # "noNativeBuffer"
             /\ captureStreams[w] # "live"
             /\ pc' = "crashed"
             /\ UNCHANGED << consumers, disk, hist >>
    /\ UNCHANGED << env, i, errorOccurred, doRun, handlers, logger, options,
                    fs, cameraProvider, numCameras, iCaptureSessions,
                    sensorMode, captureStreams, numThreadsCreated,
                    numThreadsInitialized, requests, numSuccessfulRequests,
                    elapsed, result, frames >>

WorkerStep(w) == Connect(w) \/ LoopCheck(w) \/ AcquireFrame(w) \/ ProcessFrame(w)

OrchestratorStep ==
    \/ InstallSignalHandlers \/ CreateLogger \/ ParseOptions \/ SelectVolume
    \/ SetLoggerDirectory \/ CreateBaseDirectory \/ CreateCameraProvider
    \/ GetCameraDevices \/ CreateCaptureSessions \/ VerifySensorMode
    \/ WriteOptions \/ CreateOutputStreams \/ LaunchConsumers \/ WaitRunning
    \/ CreateRequests \/ SubmitRequests \/ WaitLoopCheck \/ Tick
    \/ StopExecuteAll \/ StopRepeat \/ WaitForIdle
    \/ DestroyStreams \/ ShutdownConsumers \/ DeleteConsumers \/ Return

Next ==
    \/ OrchestratorStep
    \/ SignalCallback
    \/ \E w \in Cams : WorkerStep(w)

Spec == Init /\ [][Next]_vars

WorkerSpec == WorkerInit /\ [][Next]_vars

ScenarioSpec == ScenarioInit /\ [][Next]_vars

\* App::run from the sensor-mode phase on.
ModeNext ==
    \/ VerifySensorMode \/ WriteOptions \/ CreateOutputStreams
    \/ LaunchConsumers \/ WaitRunning \/ CreateRequests \/ SubmitRequests
    \/ WaitLoopCheck \/ Tick \/ StopExecuteAll \/ StopRepeat \/ WaitForIdle
    \/ DestroyStreams \/ ShutdownConsumers \/ DeleteConsumers \/ Return
    \/ SignalCallback
    \/ \E w \in Cams : WorkerStep(w)

ModeSpec == ModeInit /\ [][ModeNext]_vars

\* The orchestrator and every worker thread keep being scheduled.  Signals
\* and frame arrivals are up to the environment.
FairSpec ==
    /\ Spec
    /\ WF_vars(OrchestratorStep)
    /\ \A w \in Cams : WF_vars(WorkerStep(w))

FairScenarioSpec ==
    /\ ScenarioSpec
    /\ WF_vars(OrchestratorStep)
    /\ \A w \in Cams : WF_vars(WorkerStep(w))

(***************************************************************************)
(* Properties.                                                             *)
(***************************************************************************)

\* The cameras of the run: indices 0 .. numCameras-1.
Cameras == 0 .. (numCameras - 1)

\* Positions of App::run after the stopExecute loop.
TeardownPcs ==
    { "stopRepeat", "waitIdle", "destroyStreams", "shutdown", "delete",
      "return", "done" }

\* C1: no repeating capture request is submitted on any session until
\* waitRunning has returned success for every worker; if any waitRunning
\* failed, no capture request is ever submitted.
C1_SubmitOnlyAfterAllRunning ==
    hist.submitted # {} =>
        /\ ~hist.waitRunningFailed
        /\ \A c \in Cameras : c \in hist.waitRunningOk

C1_Witness ==
    /\ numCameras >= 2
    /\ hist.submitted = Cameras
    /\ hist.waitRunningOk = Cameras

\* C2: teardown runs in the order stopRepeat on the sessions, waitForIdle on
\* the sessions, release of every output stream, shutdown (join) of the
\* workers, deletion of the workers, release of the sessions and the
\* provider; no worker is joined while a stream still exists.
C2_TeardownOrder ==
    /\ (\E c \in Cams : requests[c] = "idle") =>
          \A c \in Cams : requests[c] # "repeating"
    /\ (\E c \in Cams : captureStreams[c] = "reset") =>
          \A c \in Cams : requests[c] \notin { "repeating", "stopped" }
    /\ (\E c \in Cams : consumers[c].joined) =>
          \A c \in Cams : captureStreams[c] # "live"
    /\ (\E c \in Cams : consumers[c].object = "deleted") =>
          \A c \in Cams : c < numThreadsInitialized => consumers[c].joined
    /\ (cameraProvider = "released" \/ \E c \in Cams : iCaptureSessions[c] = "released") =>
          \A c \in Cams : consumers[c].object # "created"

C2_Witness ==
    /\ pc = "done"
    /\ result = "true"
    /\ numCameras >= 2
    /\ \A c \in Cameras :
          /\ requests[c] = "idle"
          /\ captureStreams[c] = "reset"
          /\ consumers[c].joined
          /\ consumers[c].object = "deleted"
          /\ iCaptureSessions[c] = "released"
    /\ cameraProvider = "released"

\* C3: once the cancellation token is set while the orchestrator is in its
\* wait loop, App::run eventually returns with every worker out of its
\* Execute loop and joined.
C3_CancelledRunReturns ==
    (pc \in { "waitLoop", "tick" } /\ ~doRun) ~>
        (pc = "done" /\ \A c \in Cameras : consumers[c].joined)

\* C4: if a tick of the wait loop polls a worker whose isExecuting is false,
\* the token is set in that tick, the wait loop exits next, and stopExecute
\* is then called on every worker, in bounded and unbounded runs alike.
C4_FailFast ==
    /\ [][ (pc = "tick" /\ pc' # pc /\ \E c \in Cameras : ~consumers[c].doExecute)
              => ~doRun' ]_vars
    /\ [][ (hist.pollSawDead /\ pc = "waitLoop" /\ pc' # pc)
              => pc' = "stopExecute" ]_vars
    /\ [](hist.pollSawDead /\ pc \in TeardownPcs
              => \A c \in Cameras : c \in hist.stopExecuteCalled)
    /\ (hist.pollSawDead ~> \A c \in Cameras : c \in hist.stopExecuteCalled)

C4_Witness ==
    /\ hist.pollSawDead
    /\ options.captureTime > 0
    /\ elapsed < options.captureTime
    /\ numCameras >= 2
    /\ pc = "stopRepeat"
    /\ hist.stopExecuteCalled = Cameras

\* C5: once the cancellation token is set (_doRun is false), no step of any
\* thread resets it.
C5_CancellationMonotonic == [][ ~doRun => ~doRun' ]_vars

C5_Witness ==
    /\ ~doRun
    /\ pc = "done"
    /\ numCameras >= 1
    /\ result = "true"

\* C6: the wait loop exits exactly when the token is set or, in a bounded
\* run, the elapsed time has reached the duration; an unbounded run never
\* leaves the wait loop while the token is unset.
C6_WaitLoopExit ==
    [][ (pc = "waitLoop" /\ pc' # pc) =>
           ( (pc' = "stopExecute") <=>
                (~doRun \/ (options.captureTime > 0 /\ elapsed >= options.captureTime)) )
      ]_vars

C6_Witness ==
    /\ pc = "stopExecute"
    /\ i = 0
    /\ doRun
    /\ options.captureTime > 0
    /\ elapsed >= options.captureTime
    /\ hist.stopExecuteCalled = {}

\* C7: a worker checks its stop signal once per iteration of the Execute
\* loop; once it has seen the signal it starts no new acquireFrame, and at
\* most one acquireFrame completes after stopExecute was called on it.
C7_CooperativeStop ==
    /\ [](\A c \in Cams : hist.acquiredAfterStop[c] <= 1)
    /\ [][ \A c \in Cams :
              /\ (consumers[c].thread = "check" /\ ~consumers[c].doExecute)
                    => consumers'[c].thread \in { "check", "done" }
              /\ (consumers'[c].thread = "acquire")
                    => consumers[c].thread \in { "check", "acquire" }
         ]_vars

C7_Witness ==
    /\ hist.acquiredAfterStop[0] = 1
    /\ consumers[0].thread = "done"
    /\ hist.saved[0] >= 2
    /\ FrameAvailable(0)

\* C8 as stated: with no failure a worker has written floor(n / S) images
\* after n delivered frames.
C8_Original ==
    \A c \in Cams :
        (consumers[c].thread \in { "check", "acquire", "done" } /\ ~hist.failure[c])
            => hist.saved[c] = frames[c].delivered \div options.saveEvery

\* C8 amended: with no failure a worker has written one image for each
\* delivered frame whose raw sequence number is a multiple of S, and no
\* other; that is floor(n / S) images when the n delivered frames are
\* numbered 1 .. n (no frame was dropped).
C8_StrideSampling ==
    \A c \in Cams :
        (consumers[c].thread \in { "check", "acquire", "done" } /\ ~hist.failure[c])
            => /\ hist.saved[c] = frames[c].multiples
               /\ frames[c].lastNumber = frames[c].delivered
                     => hist.saved[c] = frames[c].delivered \div options.saveEvery

C8_Witness ==
    /\ options.saveEvery = 2
    /\ frames[0].delivered = 4
    /\ frames[0].lastNumber = 4
    /\ hist.saved[0] = 2
    /\ ~hist.failure[0]
    /\ consumers[0].thread = "check"

C10_Original ==
    (pc = "done" /\ hist.initFailedAt >= 0) =>
        LET f == hist.initFailedAt IN
        /\ { c \in Cams : consumers[c].object = "deleted" } = 0 .. (f - 1)
        /\ { c \in Cams : captureStreams[c] = "reset" } = 0 .. (f - 1)
        /\ { c \in Cams : iCaptureSessions[c] = "released" } = 0 .. (f - 1)
        /\ \A c \in Cams : ~consumers[c].jpegEncoder /\ ~consumers[c].outputBuffer
                            /\ consumers[c].dmabuf = NoBuffer

\* C10 amended: if the worker for camera k of N fails to initialize, exactly
\* the k-1 workers initialized before it are shut down, exactly the k
\* workers created (the failed one included) are deleted, all N streams and
\* all N sessions are released, and no buffer or encoder handle remains at
\* return.
C10_PartialStartupTeardown ==
    (pc = "done" /\ hist.initFailedAt >= 0) =>
        LET f == hist.initFailedAt IN
        /\ { c \in Cams : consumers[c].joined } = 0 .. (f - 1)
        /\ hist.shutdownCalled = 0 .. (f - 1)
        /\ { c \in Cams : consumers[c].object = "deleted" } = 0 .. f
        /\ { c \in Cams : consumers[c].object = "created" } = {}
        /\ { c \in Cams : captureStreams[c] = "reset" } = Cameras
        /\ { c \in Cams : iCaptureSessions[c] = "released" } = Cameras
        /\ \A c \in Cams : ~consumers[c].jpegEncoder /\ ~consumers[c].outputBuffer
                            /\ consumers[c].dmabuf = NoBuffer

C10_Witness ==
    /\ pc = "done"
    /\ numCameras = 3
    /\ hist.initFailedAt = 1
    /\ consumers[0].joined
    /\ consumers[1].object = "deleted"
    /\ consumers[2].object = "none"

\* Every startup phase of App::run up to and including the submission of
\* the capture requests succeeded.
StartupSucceeded ==
    /\ handlers = NumSignals
    /\ logger
    /\ fs.root
    /\ fs.manifest
    /\ cameraProvider # "none"
    /\ numCameras >= 1
    /\ sensorMode
    /\ numThreadsInitialized = numCameras
    /\ numSuccessfulRequests = numCameras
    /\ hist.waitRunningOk = Cameras
    /\ ~hist.waitRunningFailed
    /\ \A c \in Cameras :
          /\ iCaptureSessions[c] \in { "open", "released" }
          /\ captureStreams[c] \in { "live", "reset" }
          /\ consumers[c].object # "none"
          /\ requests[c] \in { "repeating", "stopped", "idle" }

\* Positions of App::run from the wait loop on.
AfterStartupPcs == { "waitLoop", "tick", "stopExecute" } \cup TeardownPcs

\* C11: App::run returns true if and only if every startup phase up to and
\* including capture-request submission succeeded; from the wait loop on
\* (signal, expiry, a worker's soft or hard failure, end of stream) no step
\* changes errorOccurred, so a run that entered the wait loop returns true.
C11_ReturnValue ==
    /\ [](pc = "done" => (result = "true" <=> StartupSucceeded))
    /\ [](pc \in { "waitLoop", "tick", "stopExecute" } => ~errorOccurred /\ StartupSucceeded)
    /\ [][ (pc \in AfterStartupPcs) => (errorOccurred' = errorOccurred) ]_vars

C11_Witness ==
    /\ pc = "done"
    /\ result = "true"
    /\ ~doRun
    /\ numCameras >= 2
    /\ hist.pollSawDead
    /\ \E c \in Cameras : hist.failure[c] /\ consumers[c].errorOccurred

\* Worker c hit a write or encode failure: it stopped itself without
\* setting its error status.
SoftFailed(c) ==
    /\ hist.failure[c]
    /\ ~consumers[c].errorOccurred
    /\ ~consumers[c].doExecute

\* C12: when one worker of several hits a write/encode failure mid-run, it
\* leaves its loop without an error and its liveness flag becomes false; a
\* later tick sets the cancellation token; every other worker is told to
\* stop and is joined; App::run returns true.  Stated for unbounded runs,
\* where only a tick or a signal ends the wait loop.
C12_SoftFailurePropagates ==
    ( /\ pc \in { "waitLoop", "tick" }
      /\ options.captureTime = 0
      /\ numCameras >= 2
      /\ \E c \in Cameras : SoftFailed(c) )
        ~> ( /\ pc = "done"
             /\ result = "true"
             /\ ~doRun
             /\ \A c \in Cameras : c \in hist.stopExecuteCalled /\ consumers[c].joined )

\* The provider was opened and enumerated no camera device.
ZeroCamerasEnumerated ==
    /\ env.cameras = 0
    /\ cameraProvider # "none"
    /\ pc \notin { "provider", "devices" }

\* C13: when the provider enumerates zero camera devices, App::run returns
\* false and no session, stream, worker, per-camera subdirectory or capture
\* request is ever created; only the output root exists.
C13_ZeroCameras ==
    ZeroCamerasEnumerated =>
        /\ errorOccurred
        /\ fs.root
        /\ ~fs.manifest
        /\ pc = "done" => result = "false"
        /\ hist.submitted = {}
        /\ \A c \in Cams :
              /\ iCaptureSessions[c] = "none"
              /\ captureStreams[c] = "null"
              /\ consumers[c].object = "none"
              /\ consumers[c].thread = "none"
              /\ ~disk[c].dir
              /\ disk[c].files = {}
              /\ requests[c] = "none"

C13_Witness ==
    /\ ZeroCamerasEnumerated
    /\ pc = "done"
    /\ result = "false"
    /\ cameraProvider = "released"
    /\ fs.root

\* The requested sensor-mode index is out of range for every mode list a
\* device can report.
ModeOutOfRange == env.captureMode > MaxModes

\* C14: for a requested sensor-mode index that is out of range for the
\* device's mode list, startup does not fail: the request gets past option
\* parsing without an error and a run in which every phase after it
\* succeeded returns success.
C14_FallbackSucceeds ==
    /\ [][ (ModeOutOfRange /\ pc = "options" /\ ~errorOccurred) => ~errorOccurred' ]_vars
    /\ [](ModeOutOfRange /\ pc = "done" /\ fs.root /\ hist.submitted = Cameras
             => result = "true")

\* C15: a worker's hardware buffer is allocated at most once per session, on
\* its first processed frame; every later processed frame copies into the
\* existing buffer and allocates nothing, whatever frames are delivered.
C15_BufferAllocatedOnce ==
    /\ [](\A c \in Cams :
             /\ hist.allocations[c] <= 1
             /\ hist.saved[c] > 0 => hist.allocations[c] = 1
             /\ consumers[c].object = "created"
                   => (consumers[c].dmabuf = Allocated <=> hist.allocations[c] = 1))
    /\ [][ \A c \in Cams :
              hist.allocations'[c] # hist.allocations[c]
                 => /\ consumers[c].dmabuf = NoBuffer
                    /\ consumers'[c].dmabuf = Allocated
                    /\ hist.saved[c] = 0
                    /\ ~hist.failure[c]
         ]_vars

C15_Witness ==
    /\ hist.allocations[0] = 1
    /\ hist.saved[0] >= 3
    /\ consumers[0].dmabuf = Allocated
    /\ consumers[0].thread = "acquire"

\* C16: every worker that was created has had its encoder, its scratch
\* output buffer and its hardware buffer released by the time App::run
\* returns, however Execute ended and whether or not startup succeeded.
C16_WorkerResourcesReleased ==
    pc = "done" =>
        \A c \in Cams :
            /\ consumers[c].object # "created"
            /\ consumers[c].object = "none" <=> c >= numThreadsCreated
            /\ ~consumers[c].jpegEncoder
            /\ ~consumers[c].outputBuffer
            /\ ~consumers[c].consumer
            /\ consumers[c].dmabuf = NoBuffer

C16_Witness ==
    /\ pc = "done"
    /\ numThreadsCreated >= 2
    /\ hist.allocations[0] = 1
    /\ consumers[0].object = "deleted"
    /\ consumers[0].dmabuf = NoBuffer
    /\ \E c \in Cameras : hist.failure[c]

\* C17 as stated: every worker that is deleted, the one whose Initialize
\* failed included, has had shutdown() called on it and returned.
C17_Original ==
    \A c \in Cams :
        consumers[c].object = "deleted"
            => c \in hist.shutdownCalled /\ consumers[c].joined

\* C17 amended: every worker that was initialized has had shutdown() called
\* on it and returned before it is deleted; the worker whose Initialize
\* failed is deleted without shutdown() being called on it.
C17_DeletedAfterShutdown ==
    \A c \in Cams :
        consumers[c].object = "deleted" =>
            IF c < numThreadsInitialized
               THEN /\ c \in hist.shutdownCalled
                    /\ consumers[c].joined
                    /\ consumers[c].thread = "done"
               ELSE /\ c = hist.initFailedAt
                    /\ c \notin hist.shutdownCalled
                    /\ ~consumers[c].joined
                    /\ consumers[c].thread = "none"

C17_Witness ==
    /\ pc = "return"
    /\ hist.initFailedAt = 2
    /\ \A c \in Cameras : consumers[c].object = "deleted"
    /\ hist.shutdownCalled = { 0, 1 }
    /\ ~consumers[2].joined

\* App::run is past its stopRepeat loop.
TeardownStarted == pc \in (TeardownPcs \ { "stopRepeat" })

\* C18: in every execution in which at least one worker was initialized,
\* executions in which a later startup phase fails included, stopExecute has
\* been called on every initialized worker before any stopRepeat, stream
\* release or worker join.
C18_StopSignalFirst ==
    (numThreadsInitialized >= 1 /\ TeardownStarted)
        => \A c \in Cams : c < numThreadsInitialized => c \in hist.stopExecuteCalled

\* Submission failed at camera k: repeat was called on session k and its
\* request is not repeating.
SubmitFailedAt(k) == k \in hist.submitted /\ requests[k] = "built"

\* The sessions on which stopRepeat, and then waitForIdle, have been called.
StoppedSessions == { c \in Cams : requests[c] \in { "stopped", "idle" } }

\* C19: stopRepeat and waitForIdle are called on a session only if its
\* repeating capture request was submitted successfully; when submission
\* fails at camera index k they are called on exactly sessions 0 .. k-1.
C19_StopOnlyStarted ==
    /\ [](\A c \in StoppedSessions : c \in hist.submitted /\ c < numSuccessfulRequests)
    /\ [](TeardownStarted => \A k \in Cams :
             SubmitFailedAt(k) => StoppedSessions = 0 .. (k - 1))
    /\ [](pc \in (TeardownPcs \ { "stopRepeat", "waitIdle" }) =>
             { c \in Cams : requests[c] = "idle" } = 0 .. (numSuccessfulRequests - 1))
    /\ [][ \A c \in Cams :
              /\ (requests'[c] = "stopped" /\ requests[c] # "stopped")
                    => requests[c] = "repeating"
              /\ (requests'[c] = "idle" /\ requests[c] # "idle")
                    => requests[c] = "stopped"
         ]_vars

C19_Witness ==
    /\ pc = "destroyStreams"
    /\ numCameras = 3
    /\ SubmitFailedAt(2)
    /\ StoppedSessions = { 0, 1 }
    /\ requests[2] = "built"

\* C20: if creating the output root directory fails, App::run returns false,
\* the camera provider is never opened, no session, stream or worker is
\* created, no manifest is written, and every teardown loop performs zero
\* operations.
C20_RootDirectoryFailure ==
    hist.rootFailed =>
        /\ errorOccurred
        /\ ~fs.root
        /\ ~fs.manifest
        /\ cameraProvider = "none"
        /\ pc = "done" => result = "false"
        /\ numCameras = 0
        /\ numSuccessfulRequests = 0
        /\ numThreadsInitialized = 0
        /\ numThreadsCreated = 0
        /\ hist.submitted = {}
        /\ hist.stopExecuteCalled = {}
        /\ hist.shutdownCalled = {}
        /\ \A c \in Cams :
              /\ iCaptureSessions[c] = "none"
              /\ captureStreams[c] = "null"
              /\ consumers[c] = NoConsumer
              /\ requests[c] = "none"
              /\ ~disk[c].dir

C20_Witness ==
    /\ hist.rootFailed
    /\ pc = "done"
    /\ result = "false"
    /\ env.cameras >= 1

\* The workers on which shutdown() must be called: those initialized.
InitializedWorkers == 0 .. (numThreadsInitialized - 1)

\* C21: if waitRunning fails for any worker, the remaining workers are not
\* waited for, no capture request is built or submitted, the wait loop is
\* never entered, and App::run goes on to shut down every initialized worker
\* and returns false.
C21_WaitRunningFailure ==
    /\ [](hist.waitRunningFailed =>
             /\ errorOccurred
             /\ hist.submitted = {}
             /\ \A c \in Cams : requests[c] = "none"
             /\ pc \notin { "waitRunning", "waitLoop", "tick", "stopExecute" }
             /\ pc = "done" =>
                   result = "false" /\ hist.shutdownCalled = InitializedWorkers)
    /\ [][ hist.waitRunningFailed => hist.waitRunningOk' = hist.waitRunningOk ]_vars
    /\ (hist.waitRunningFailed ~>
           (pc = "done" /\ result = "false" /\ hist.shutdownCalled = InitializedWorkers))

\* Positions of App::run up to and including the writing of the manifest.
BeforeManifestPcs ==
    { "signals", "logger", "options", "volume", "setDirectory", "mkdir",
      "provider", "devices", "sessions", "sensor", "manifest" }

\* Every phase between the creation of the output root and the writing of
\* the manifest succeeded: provider, devices, sessions and sensor mode.
ResolvedBeforeManifest ==
    /\ fs.root
    /\ cameraProvider # "none"
    /\ numCameras >= 1
    /\ \A c \in Cameras : iCaptureSessions[c] \in { "open", "released" }
    /\ sensorMode

\* C22 as stated: whenever the output root was created, the manifest is
\* written before the camera provider is opened, so it exists even when
\* device enumeration or session creation fails later.
C22_Original ==
    (fs.root /\ pc \notin { "provider", "crashed" }) => fs.manifest

\* C22 amended: the manifest is written after the output root was created,
\* the provider opened, the devices enumerated, every session created and
\* the sensor mode resolved, only if all of these succeeded, and before any
\* output stream or worker is created; when device enumeration or session
\* creation fails no manifest is written.
C22_ManifestOrder ==
    /\ [](fs.manifest => ResolvedBeforeManifest)
    /\ [](pc \notin BeforeManifestPcs /\ ResolvedBeforeManifest => fs.manifest)
    /\ []((\E c \in Cams : iCaptureSessions[c] = "null") \/ ZeroCamerasEnumerated
             => ~fs.manifest)
    /\ [][ (fs.manifest' /\ ~fs.manifest) =>
              /\ pc = "manifest"
              /\ ~errorOccurred
              /\ \A c \in Cams : captureStreams[c] = "null" /\ consumers[c] = NoConsumer
         ]_vars

C22_Witness ==
    /\ pc = "done"
    /\ fs.root
    /\ cameraProvider = "released"
    /\ numCameras >= 2
    /\ iCaptureSessions[0] = "released"
    /\ iCaptureSessions[1] = "null"
    /\ ~fs.manifest

\* The Options object is shared: a worker was constructed with a reference
\* to it.
OptionsShared == \E c \in Cams : consumers[c].object # "none"

\* C23: once the first worker has been constructed with a reference to the
\* Options object, no step of the orchestrator or of any worker changes any
\* of its fields for the rest of the run.
C23_OptionsReadOnly ==
    /\ [][ OptionsShared => (options' = options /\ OptionsShared') ]_vars
    /\ [](OptionsShared =>
             options.directory = "path" /\ options.captureResolution = "mode")

C23_Witness ==
    /\ pc = "done"
    /\ result = "true"
    /\ numThreadsCreated >= 2
    /\ hist.saved[0] >= 1
    /\ options.captureTime > 0
    /\ options.directory = "path"
    /\ options.captureResolution = "mode"

\* C24: for any number of cameras N >= 1 and a duration > 0, with every
\* startup phase succeeded, every worker healthy and no signal, App::run
\* eventually leaves the wait loop because the duration elapsed, completes
\* teardown and returns true with the cancellation token still unset.  A
\* signal or a worker that stopped by itself shows as the token being set.
C24_BoundedRunReturns ==
    /\ [][ (pc = "waitLoop" /\ pc' = "stopExecute" /\ doRun)
              => (options.captureTime > 0 /\ elapsed >= options.captureTime) ]_vars
    /\ ( (pc = "waitLoop" /\ options.captureTime > 0 /\ numCameras >= 1 /\ doRun)
            ~> ( \/ (pc = "done" /\ result = "true" /\ doRun)
                 \/ ~doRun ) )

\* C25: each per-camera startup loop stops at the first failing index and
\* attempts no later index; numThreadsInitialized <= numThreadsCreated <=
\* numCameras with a difference of 0 or 1 between the first two, and
\* numSuccessfulRequests > 0 only if every worker was initialized.
C25_LoopCounters ==
    /\ [](\A l \in Loops :
             /\ hist.attempts[l] <= numCameras
             /\ hist.failedAt[l] >= 0 =>
                   /\ hist.attempts[l] = hist.failedAt[l] + 1
                   /\ errorOccurred)
    /\ [][ \A l \in Loops :
              hist.failedAt[l] >= 0 =>
                 /\ hist.attempts'[l] = hist.attempts[l]
                 /\ hist.failedAt'[l] = hist.failedAt[l] ]_vars
    /\ [](/\ hist.attempts["sessions"] =
                Cardinality({ c \in Cams : iCaptureSessions[c] # "none" })
          /\ hist.attempts["launch"] = numThreadsCreated
          /\ hist.attempts["launch"] =
                Cardinality({ c \in Cams : consumers[c].object # "none" })
          /\ hist.attempts["submit"] = Cardinality(hist.submitted))
    /\ [](/\ numThreadsInitialized <= numThreadsCreated
          /\ numThreadsCreated <= numCameras
          /\ numThreadsCreated - numThreadsInitialized \in { 0, 1 }
          /\ numSuccessfulRequests <= numCameras)
    /\ [](numSuccessfulRequests > 0 => numThreadsInitialized = numCameras)

C25_Witness ==
    /\ pc = "done"
    /\ numCameras = 3
    /\ hist.failedAt["launch"] = 1
    /\ hist.attempts["launch"] = 2
    /\ numThreadsCreated = 2
    /\ numThreadsInitialized = 1
    /\ numSuccessfulRequests = 0
    /\ hist.attempts["sessions"] = 3
    /\ hist.attempts["waitRunning"] = 0

C28_DiscardedFrame ==
    [][ \A c \in Cams :
           ( /\ frames'[c].delivered = frames[c].delivered + 1
             /\ frames'[c].lastNumber % options.saveEvery # 0 ) =>
              /\ consumers'[c].dmabuf = consumers[c].dmabuf
              /\ consumers'[c].index = consumers[c].index
              /\ consumers'[c].wroteFirst = consumers[c].wroteFirst
              /\ consumers'[c].errorOccurred = consumers[c].errorOccurred
              /\ consumers'[c].doExecute = consumers[c].doExecute
              /\ consumers'[c].thread = "check"
              /\ disk' = disk
              /\ hist'.saved = hist.saved
              /\ hist'.allocations = hist.allocations
              /\ hist'.failure = hist.failure ]_vars

C28_Witness ==
    /\ options.saveEvery = 2
    /\ frames[0].lastNumber = 3
    /\ frames[0].delivered = 3
    /\ consumers[0].thread = "check"
    /\ consumers[0].dmabuf = Allocated
    /\ consumers[0].index = 2
    /\ consumers[0].wroteFirst
    /\ disk[0].files = { << 0, 0, 0, 0, 0, 1 >> }

\* The sensor-mode phase compared the requested index with the mode list.
ModeChecked == hist.sensorCheck.relation # "unset"

\* The fallback to the default mode was not taken: the Options object still
\* holds the requested index.
IndexKept == options.captureMode = env.captureMode

\* C29 as stated: a requested index equal to the number of sensor modes is
\* not treated as out of range and takes the valid-index branch.
C29_Original ==
    (ModeChecked /\ hist.sensorCheck.relation = "equal")
        => hist.sensorCheck.branch = "outOfBounds" /\ IndexKept

\* C29 amended: when the device lists at least one sensor mode, the bounds
\* check is a strict greater-than against the mode count: an index above the
\* count falls back to the default mode, an index equal to the count is not
\* treated as out of range, takes the valid-index branch and is used to
\* index the list, and an index below the count selects a listed mode; with
\* an empty list the phase fails before the bounds check.
C29_StrictBoundsCheck ==
    ModeChecked =>
        IF hist.sensorCheck.empty
           THEN hist.sensorCheck.branch = "none" /\ errorOccurred /\ ~sensorMode
           ELSE /\ hist.sensorCheck.relation = "above" =>
                     /\ hist.sensorCheck.branch = "default"
                     /\ options.captureMode = CAPTURE_MODE_0
                     /\ ~sensorMode
                /\ hist.sensorCheck.relation = "equal" =>
                     /\ hist.sensorCheck.branch = "outOfBounds"
                     /\ IndexKept
                /\ hist.sensorCheck.relation = "below" =>
                     /\ hist.sensorCheck.branch = "select"
                     /\ IndexKept

C29_Witness ==
    /\ ModeChecked
    /\ hist.sensorCheck.relation = "equal"
    /\ ~hist.sensorCheck.empty
    /\ hist.sensorCheck.branch = "outOfBounds"
    /\ env.captureMode = MaxModes
    /\ options.captureMode = MaxModes
    /\ sensorMode
    /\ pc = "manifest"

\* Installing one of the signal handlers failed.
SignalInstallFailed == pc # "signals" /\ handlers < NumSignals

\* C30: if installing any termination-signal handler fails, App::run performs
\* no later phase (no option parsing, no directory creation, no provider
\* open) and returns false without dereferencing an object that was never
\* created.
C30_SignalInstallFailure ==
    SignalInstallFailed =>
        /\ errorOccurred
        /\ ~logger
        /\ options = DefaultOptions
        /\ ~fs.root
        /\ ~hist.rootFailed
        /\ cameraProvider = "none"
        /\ ~hist.nullLoggerUsed
        /\ pc # "crashed"
        /\ pc = "done" => result = "false"

\* App::run is about to run an iteration of the request-building loop, or
\* has configured a request.
RequestBuildingReached ==
    \/ pc = "requests" /\ LoopActive
    \/ \E c \in Cams : requests[c] # "none"

C32_SignalDuringStartup ==
    /\ [](hist.signal = "startup" =>
             /\ ~doRun
             /\ pc # "tick"
             /\ (pc \in { "waitLoop", "stopExecute" }) => StartupSucceeded
             /\ (pc = "done" /\ ~errorOccurred) => result = "true")
    /\ [][ (hist.signal = "startup" /\ pc = "waitLoop" /\ pc' # pc)
              => pc' = "stopExecute" ]_vars
    /\ ( (hist.signal = "startup" /\ pc = "waitLoop")
            ~> ( /\ pc = "done"
                 /\ result = "true"
                 /\ hist.stopExecuteCalled = Cameras
                 /\ hist.shutdownCalled = Cameras
                 /\ \A c \in Cameras :
                       /\ requests[c] = "idle"
                       /\ captureStreams[c] = "reset"
                       /\ consumers[c].joined
                       /\ consumers[c].object = "deleted" ) )

\* A startup phase after the launch of the workers failed: waitRunning,
\* request building or request submission.
LateStartupFailure ==
    \E l \in { "waitRunning", "requests", "submit" } : hist.failedAt[l] >= 0

\* C33: on a startup failure that occurs after workers were initialized
\* (waitRunning, request building or request submission fails) stopExecute is
\* never called, yet every initialized worker terminates and is joined: the
\* release of its stream ends its Execute and shutdown() returns, so App::run
\* returns false rather than blocking forever.
C33_LateFailureJoins ==
    /\ [](LateStartupFailure =>
             /\ errorOccurred
             /\ InitializedWorkers = Cameras
             /\ hist.stopExecuteCalled = {}
             /\ pc \notin { "waitLoop", "tick", "stopExecute" }
             /\ pc = "done" =>
                   /\ result = "false"
                   /\ hist.shutdownCalled = InitializedWorkers
                   /\ \A c \in InitializedWorkers :
                         consumers[c].joined /\ consumers[c].thread = "done")
    /\ (LateStartupFailure ~>
           ( /\ pc = "done"
             /\ result = "false"
             /\ \A c \in InitializedWorkers : consumers[c].joined ))

\* C34: a worker's liveness flag (_doExecute) is monotonic: it is true from
\* construction, every write to it by the orchestrator thread (stopExecute)
\* or by the worker thread (write failure, loop exit) sets it to false, and
\* it is never set back to true, under every interleaving of the two threads.
C34_DoExecuteMonotonic ==
    /\ [][ \A c \in Cams :
              /\ ~consumers[c].doExecute => ~consumers'[c].doExecute
              /\ (consumers[c].object = "none" /\ consumers'[c].object = "created")
                    => consumers'[c].doExecute
              /\ consumers'[c].doExecute # consumers[c].doExecute =>
                    \/ c \in hist'.stopExecuteCalled \ hist.stopExecuteCalled
                    \/ hist'.failure[c] /\ ~hist.failure[c]
                    \/ consumers'[c].thread = "done" /\ consumers[c].thread # "done"
         ]_vars
    /\ [](\A c \in Cams :
             ( /\ consumers[c].thread \in { "none", "connect" }
               /\ c \notin hist.stopExecuteCalled ) => consumers[c].doExecute)

C34_Witness ==
    /\ hist.failure[0]
    /\ hist.saved[0] >= 1
    /\ 0 \in hist.stopExecuteCalled
    /\ consumers[0].thread = "done"
    /\ consumers[0].shutdownRequests = 1
    /\ ~consumers[0].doExecute
    /\ hist.pollSawDead

\* Worker c cleared its liveness flag itself: a failed save, or the end of
\* its Execute.
ClearedItself(c) ==
    /\ ~consumers[c].doExecute
    /\ c \notin hist.stopExecuteCalled
    /\ hist.failure[c] \/ consumers[c].thread = "done"

\* C35: the orchestrator's own stop request is never mistaken for a worker
\* death: liveness is polled only inside the wait loop and stopExecute is
\* called only after the wait loop has exited, so liveness polling sets the
\* cancellation token only when some worker cleared its flag itself; in a
\* bounded run that ends by duration expiry with healthy workers the token is
\* never set.
C35_StopNotMistaken ==
    /\ [](pc \in { "waitLoop", "tick" } => hist.stopExecuteCalled = {})
    /\ [][ (pc \in ({ "stopExecute" } \cup TeardownPcs))
              => (pc' \notin { "waitLoop", "tick" }) ]_vars
    /\ [][ (doRun /\ ~doRun' /\ hist'.signal = hist.signal)
              => /\ pc = "tick"
                 /\ \E c \in Cameras : ClearedItself(c) ]_vars
    /\ [][ (~hist.pollSawDead /\ hist'.pollSawDead)
              => /\ pc = "tick"
                 /\ \E c \in Cameras : ClearedItself(c) ]_vars
    /\ [](~doRun => hist.signal # "none" \/ hist.pollSawDead)
    /\ []( ( /\ pc \in ({ "stopExecute" } \cup TeardownPcs)
             /\ ~errorOccurred
             /\ options.captureTime > 0
             /\ hist.signal = "none"
             /\ ~hist.pollSawDead ) => doRun /\ elapsed >= options.captureTime )

C35_Witness ==
    /\ pc = "done"
    /\ result = "true"
    /\ options.captureTime > 0
    /\ elapsed >= options.captureTime
    /\ numCameras >= 2
    /\ hist.signal = "none"
    /\ ~hist.pollSawDead
    /\ doRun
    /\ hist.stopExecuteCalled = Cameras
    /\ \A c \in Cameras : ~consumers[c].doExecute /\ ~hist.failure[c]
    /\ \E c \in Cameras : hist.saved[c] >= 1

\* C36: every image file a worker creates on disk corresponds to a
\* successful encode followed by a successful write: no image file is created
\* or left behind for a processed frame whose encode failed, so the number of
\* image files equals the number of successful saves.
C36_FilesAreSaves ==
    \A c \in Cams : Cardinality(disk[c].files) = hist.saved[c]

=============================================================================
